---------------------------- MODULE Spec2Model ----------------------------
(***************************************************************************)
(* A model of the goauth2 authorization server: the Server object of       *)
(* server/server.go (construction through options, Start, Close, the       *)
(* request multiplexer), the state store of server/state.go, the client    *)
(* map of client/fromconfig.go and the Google identity provider of         *)
(* googleidp.go.  The two request handlers, the key/value engine, the      *)
(* authorization provider and the access-token encoder are used by these   *)
(* files but their code is not part of them; they are modelled from the    *)
(* written specification and say so where they are defined.                *)
(***************************************************************************)
EXTENDS Integers, Sequences, FiniteSets, TLC

(***************************************************************************)
(* Bounds of the model.                                                    *)
(***************************************************************************)
\* the longest option list handed to New()
MaxOptions == 2
\* goroutines that may call Start
MaxStarters == 2
\* Start calls made in one run, over all goroutines
MaxStartCalls == 3

Starters == 1..MaxStarters

(***************************************************************************)
(* URLs.  A url.URL is modelled by its host and its path; the path is the  *)
(* sequence of its segments and a flag telling whether it ends in "/".     *)
(* The zero value url.URL{} has an empty host and an empty path.           *)
(***************************************************************************)
ZeroURL == [host |-> "", segs |-> <<>>, dir |-> FALSE]

\* http://auth.example/ and http://auth.example/oauth/
BaseURLs ==
  { [host |-> "auth.example", segs |-> <<>>, dir |-> TRUE],
    [host |-> "auth.example", segs |-> <<"oauth">>, dir |-> TRUE],
    [host |-> "auth.example", segs |-> <<"oauth">>, dir |-> FALSE] }

\* addresses a listener can report: an IPv4 address, and an IPv6 link-local
\* address with a zone, whose "%" url.Parse rejects as a bad escape
ListenAddrs == {"127.0.0.1:8080", "[fe80::1%eth0]:8080"}

\* url.Parse(fmt.Sprintf("http://%s/", addr)): does it succeed
ParseAddrOK(addr) == addr # "[fe80::1%eth0]:8080"

\* the URL url.Parse returns for http://<addr>/
AddrURL(addr) == [host |-> addr, segs |-> <<>>, dir |-> TRUE]

Front(q) == SubSeq(q, 1, Len(q) - 1)

\* identifiers an IdP can be registered under; "%zz" is not a valid path
IdpIds == {"google-oic", "datapunt", "%zz", "anonymous"}

\* url.Parse of the relative reference authorize/<id>: does it succeed
ParseRelOK(id) == id # "%zz"

\* a resolution that drops the path of the base
ResolveReference_Root(base, id) ==
  [host |-> base.host, segs |-> <<"authorize", id>>, dir |-> FALSE]

\* (*URL).Parse(relPath) for relPath = authorize/<id>: RFC 3986 resolution of
\* a relative path against the base: the base path up to its last "/" and
\* then the reference
ResolveReference(base, id) ==
  [host |-> base.host,
   segs |-> (IF base.dir THEN base.segs ELSE Front(base.segs))
              \o <<"authorize", id>>,
   dir  |-> FALSE]

\* the path the mux mounts the handler of <id> at: /authorize/<id>
AbsPath(id) == <<"authorize", id>>

(***************************************************************************)
(* The Server and its options.                                             *)
(***************************************************************************)
\* &Server{authn: make(map[string]Authn)}
EmptyServer ==
  [baseURL        |-> ZeroURL,
   listener       |-> "nil",
   accessTokenEnc |-> "nil",
   store          |-> "nil",
   authz          |-> "nil",
   authn          |-> [x \in {} |-> "nil"],
   clientMap      |-> "nil",
   initialized    |-> FALSE]

\* the Authn values an IdP option can carry: two googleIDP instances
Authns == {"googleA", "googleB"}

\* the options a caller can build
Options ==
     [op : {"BaseURL"}, id : {""}, arg : BaseURLs]
  \cup [op : {"Storage"}, id : {""}, arg : {"redis"}]
  \cup [op : {"Clients"}, id : {""}, arg : {"clients"}]
  \cup [op : {"AuthzProvider"}, id : {""}, arg : {"roles"}]
  \cup [op : {"AccessTokenConfig"}, id : {""}, arg : {"configured"}]
  \cup [op : {"IdP"}, id : {"google-oic"}, arg : Authns]
  \cup [op : {"IdP"}, id : {"datapunt", "%zz"}, arg : {"googleA"}]

ErrInitialized == "Given server already initialized"
ErrAccessToken == "Can only call SetAccessTokenConfig as an option to New(...)"
ErrRegisterIdP == "Can only call RegisterIdP as an option to New(...)"

\* m[id] = a on a Go map
MapSet(m, id, a) == [x \in DOMAIN m \cup {id} |-> IF x = id THEN a ELSE m[x]]

\* BaseURL without the check of the initialized flag
BaseURL_Unguarded(s, u) ==
  [s |-> [s EXCEPT !.baseURL = u], err |-> "nil"]

BaseURL(s, u) ==
  IF s.initialized THEN [s |-> s, err |-> ErrInitialized]
  ELSE [s |-> [s EXCEPT !.baseURL = u], err |-> "nil"]

Storage(s, store) ==
  IF s.initialized THEN [s |-> s, err |-> ErrInitialized]
  ELSE [s |-> [s EXCEPT !.store = store], err |-> "nil"]

\* Clients without the check of the initialized flag
Clients_Unguarded(s, m) ==
  [s |-> [s EXCEPT !.clientMap = m], err |-> "nil"]

Clients(s, m) ==
  IF s.initialized THEN [s |-> s, err |-> ErrInitialized]
  ELSE [s |-> [s EXCEPT !.clientMap = m], err |-> "nil"]

AuthzProvider(s, p) ==
  IF s.initialized THEN [s |-> s, err |-> ErrInitialized]
  ELSE [s |-> [s EXCEPT !.authz = p], err |-> "nil"]

AccessTokenConfig(s, enc) ==
  IF s.initialized THEN [s |-> s, err |-> ErrAccessToken]
  ELSE [s |-> [s EXCEPT !.accessTokenEnc = enc], err |-> "nil"]

\* an IdP that keeps the registration an identifier already has
IdP_KeepFirst(s, id, a) ==
  IF s.initialized THEN [s |-> s, err |-> ErrRegisterIdP]
  ELSE IF id \in DOMAIN s.authn THEN [s |-> s, err |-> "nil"]
  ELSE [s |-> [s EXCEPT !.authn = MapSet(s.authn, id, a)], err |-> "nil"]

IdP(s, id, a) ==
  IF s.initialized THEN [s |-> s, err |-> ErrRegisterIdP]
  ELSE [s |-> [s EXCEPT !.authn = MapSet(s.authn, id, a)], err |-> "nil"]

\* option(s): the closure an option constructor returned, applied to s
Option(o, s) ==
  CASE o.op = "BaseURL"           -> BaseURL(s, o.arg)
    [] o.op = "Storage"           -> Storage(s, o.arg)
    [] o.op = "Clients"           -> Clients(s, o.arg)
    [] o.op = "AuthzProvider"     -> AuthzProvider(s, o.arg)
    [] o.op = "AccessTokenConfig" -> AccessTokenConfig(s, o.arg)
    [] o.op = "IdP"               -> IdP(s, o.id, o.arg)

\* the loop of New over its options: stops at the first error
RECURSIVE ApplyOptions(_, _)
ApplyOptions(s, opts) ==
  IF opts = <<>> THEN [s |-> s, err |-> "nil"]
  ELSE LET r == Option(Head(opts), s)
       IN IF r.err # "nil" THEN r ELSE ApplyOptions(r.s, Tail(opts))

\* the defaults New fills in, and the initialized flag
NewDefaults(s) ==
  LET s1 == IF s.accessTokenEnc = "nil"
            THEN [s EXCEPT !.accessTokenEnc = "random-secret"] ELSE s
      s2 == IF s1.store = "nil"
            THEN [s1 EXCEPT !.store = "transientMap"] ELSE s1
      s3 == IF s2.authz = "nil"
            THEN [s2 EXCEPT !.authz = "emptyScopeSet"] ELSE s2
      s4 == IF DOMAIN s3.authn = {}
            THEN [s3 EXCEPT !.authn = MapSet(s3.authn, "anonymous", "anonymousIdP")]
            ELSE s3
  IN [s4 EXCEPT !.initialized = TRUE]

\* New(options...): the server, or the error of the option that failed
New(opts) ==
  LET r == ApplyOptions(EmptyServer, opts)
  IN IF r.err # "nil" THEN r ELSE [s |-> NewDefaults(r.s), err |-> "nil"]

RECURSIVE SeqsUpTo(_, _)
SeqsUpTo(S, n) ==
  IF n = 0 THEN {<<>>}
  ELSE LET shorter == SeqsUpTo(S, n - 1)
       IN shorter \cup {Append(q, x) : q \in shorter, x \in S}

OptionLists == SeqsUpTo(Options, MaxOptions)

(***************************************************************************)
(* The client map (client/fromconfig.go).                                  *)
(***************************************************************************)
\* the configured clients (OAuth20ClientConfig: redirects and secret)
ClientConfig ==
  [id \in {"app1", "app2"} |->
     IF id = "app1"
     THEN [Redirects |-> <<"https://app1/cb">>, Secret |-> ""]
     ELSE [Redirects |-> <<"https://app2/cb">>, Secret |-> "s3cret"]]

\* the nil *OAuth20ClientData
NoClientData == [Id |-> "", Redirects |-> <<>>, Secret |-> ""]

\* a Get that answers an unknown identifier with the first client
Get_Fallback(m, id) ==
  LET known == IF id \in DOMAIN m THEN id ELSE "app1"
  IN [client |-> [Id |-> id, Redirects |-> m[known].Redirects,
                  Secret |-> m[known].Secret],
      err |-> "nil"]

\* OAuth20ClientMapFromConfig.Get: the client's data, or an error
Get(m, id) ==
  IF id \in DOMAIN m
  THEN [client |-> [Id |-> id, Redirects |-> m[id].Redirects,
                    Secret |-> m[id].Secret],
        err |-> "nil"]
  ELSE [client |-> NoClientData, err |-> "Client ID not found"]

\* the grant each client is allowed
GrantTypes ==
  [id \in {"app1", "app2"} |->
     IF id = "app1" THEN "implicit" ELSE "authorization_code"]

\* the nil *Client
NoClient == [Id |-> "", Redirects |-> <<>>, Secret |-> "", GrantType |-> ""]

\* ClientMap.Get: the configured client's data with its allowed grant
ClientMapGet(m, id) ==
  LET r == Get(m, id)
  IN IF r.err # "nil" THEN [client |-> NoClient, err |-> r.err]
     ELSE [client |-> [Id |-> r.client.Id,
                       Redirects |-> r.client.Redirects,
                       Secret |-> r.client.Secret,
                       GrantType |-> IF id \in DOMAIN GrantTypes
                                     THEN GrantTypes[id] ELSE ""],
           err |-> "nil"]

Range(q) == {q[i] : i \in 1..Len(q)}

(***************************************************************************)
(* The authorization provider: the Authz and ScopeSet interfaces.          *)
(***************************************************************************)
\* the provider's total scope set; emptyScopeSet has none
TotalScopes(p) == IF p = "roles" THEN {"read", "write"} ELSE {}

\* the scopes the provider grants each user
UserScopes(p, uid) ==
  IF p # "roles" THEN {}
  ELSE CASE uid = "u1" -> {"read", "write"}
         [] uid = "u2" -> {"read"}
         [] OTHER      -> {}

\* Authz.ValidScope(scope...): every argument is in the total scope set
ValidScope(p, scope) == \A i \in 1..Len(scope) : scope[i] \in TotalScopes(p)

\* Authz.ScopeSetFor(u): the user's scope set, within the total set
ScopeSetFor(p, uid) == UserScopes(p, uid) \cap TotalScopes(p)

(***************************************************************************)
(* The state store (server/state.go) over a key/value engine.              *)
(***************************************************************************)
\* the random references (authz_ref) /authorize can draw: the engine's keys.
\* Reference 0 stands for the empty string, which is no key.
MaxKeys == 2
Keys == 1..MaxKeys

\* the lifetime the state store is built with, in ticks of the engine's clock
StateLifetime == 2

Fields == {"ClientId", "RedirectURI", "ResponseType", "Scope", "State",
           "IdPState"}
SliceFields == {"Scope", "IdPState"}

\* the zero value of authorizationState; a nil slice and an empty one are
\* both the empty sequence
ZeroState ==
  [ClientId |-> "", RedirectURI |-> "", ResponseType |-> "",
   Scope |-> <<>>, State |-> "", IdPState |-> <<>>]

IsZero(f, v) == IF f \in SliceFields THEN Len(v) = 0 ELSE v = ""

\* an Encode that does not transmit the State field
gobEncode_DropsState(data) ==
  [kind    |-> "gob",
   present |-> {f \in Fields \ {"State"} : ~IsZero(f, data[f])},
   vals    |-> [f \in Fields |->
                  IF f = "State" \/ IsZero(f, data[f]) THEN ZeroState[f]
                  ELSE data[f]]]

\* gob's Encode of a struct: the fields that hold their zero value are left
\* out of the transmission
gobEncode(data) ==
  [kind    |-> "gob",
   present |-> {f \in Fields : ~IsZero(f, data[f])},
   vals    |-> [f \in Fields |->
                  IF IsZero(f, data[f]) THEN ZeroState[f] ELSE data[f]]]

\* bytes in the engine that are no gob stream
Garbage == [kind |-> "garbage", present |-> {}, vals |-> ZeroState]

\* gob's Decode into e: an error on bytes that are no gob stream; a field
\* absent from the stream keeps the value e had
gobDecode(encoded, e) ==
  IF encoded.kind # "gob"
  THEN [e |-> e, err |-> "gob: decode"]
  ELSE [e |-> [f \in Fields |->
                 IF f \in encoded.present THEN encoded.vals[f] ELSE e[f]],
        err |-> "nil"]

\* an entry of the engine: the value, the lifetime it was stored with and
\* its age, the ticks since it was stored
NoEntry == [present |-> FALSE, value |-> Garbage, ttl |-> 0, age |-> 0]
EmptyEngine == [k \in Keys |-> NoEntry]

\* StateKeeper.Persist(key, value, ttl); up: the backend answers
Persist(eng, key, value, ttl, up) ==
  IF ~up THEN [eng |-> eng, err |-> "backend"]
  ELSE [eng |-> [eng EXCEPT ![key] =
                   [present |-> TRUE, value |-> value, ttl |-> ttl, age |-> 0]],
        err |-> "nil"]

\* whether the engine still holds a value under key
Live(eng, key) ==
  /\ key \in Keys
  /\ eng[key].present
  /\ eng[key].age < eng[key].ttl

\* StateKeeper.Restore(key): never a value past its lifetime
Restore(eng, key, up) ==
  IF ~up THEN [value |-> Garbage, err |-> "backend"]
  ELSE IF ~Live(eng, key) THEN [value |-> Garbage, err |-> "missing"]
  ELSE [value |-> eng[key].value, err |-> "nil"]

\* a tick of the engine's clock: every entry is one tick older; an entry
\* past its lifetime stays so
Age(eng) ==
  [k \in Keys |->
     IF eng[k].present /\ eng[k].age < eng[k].ttl
     THEN [eng[k] EXCEPT !.age = @ + 1] ELSE eng[k]]

\* newStateStorage(engine, lifetime)
newStateStorage(engine, lifetime) ==
  [engine |-> engine, maxLifetime |-> lifetime]

\* a restore that hides what went wrong behind one error
restore_OneError(store, key, e, eng, up) ==
  LET r == Restore(eng, key, up)
  IN IF r.err # "nil" THEN [e |-> e, err |-> "restore failed"]
     ELSE LET d == gobDecode(r.value, e)
          IN IF d.err # "nil" THEN [e |-> e, err |-> "restore failed"]
             ELSE [e |-> d.e, err |-> "nil"]

\* stateStorage.restore(key, e): the engine's error, or gob's, or e filled
restore(store, key, e, eng, up) ==
  LET r == Restore(eng, key, up)
  IN IF r.err # "nil" THEN [e |-> e, err |-> r.err]
     ELSE LET d == gobDecode(r.value, e)
          IN IF d.err # "nil" THEN [e |-> e, err |-> d.err]
             ELSE [e |-> d.e, err |-> "nil"]

\* a persist that hands the engine another lifetime than the store's
persist_OtherLifetime(store, key, data, eng, up) ==
  Persist(eng, key, gobEncode(data), store.maxLifetime + 1, up)

\* stateStorage.persist(key, data): encode, then Persist with maxLifetime
persist(store, key, data, eng, up) ==
  Persist(eng, key, gobEncode(data), store.maxLifetime, up)

(***************************************************************************)
(* The Google identity provider (googleidp.go).                            *)
(***************************************************************************)
googleAuthURL == "https://accounts.google.com/o/oauth2/v2/auth"

\* the references a callback can carry: the keys, and one more that
\* /authorize never issued
Refs == 1..(MaxKeys + 1)

\* url.Values{ref, redirect_uri}.Encode(): the pairs, sorted by key
ValuesEncode(ref, redirect) ==
  [wellFormed |-> TRUE,
   pairs |-> << [k |-> "redirect_uri", ref |-> 0, url |-> redirect],
                [k |-> "ref", ref |-> ref, url |-> ZeroURL] >>]

\* a state parameter url.ParseQuery rejects
MalformedState == [wellFormed |-> FALSE, pairs |-> <<>>]

\* a state parameter that parses and carries no ref
StateWithoutRef(redirect) ==
  [wellFormed |-> TRUE,
   pairs |-> << [k |-> "redirect_uri", ref |-> 0, url |-> redirect] >>]

\* url.ParseQuery(state[0]) followed by Get("ref"): the first value under
\* the key, the empty reference when there is none
ValuesGetRef(state) ==
  LET hits == {i \in 1..Len(state.pairs) : state.pairs[i].k = "ref"}
  IN IF hits = {} THEN 0
     ELSE state.pairs[CHOOSE i \in hits : \A j \in hits : i <= j].ref

NoUser == [some |-> FALSE, UID |-> "", Data |-> <<>>]

\* googleIDP.AuthnRedirect(callbackURL, authzRef): the authentication URL
GoogleAuthnRedirect(clientID, callbackURL, authzRef) ==
  [url |-> [endpoint      |-> googleAuthURL,
            client_id     |-> clientID,
            response_type |-> "code",
            scope         |-> "openid email",
            redirect_uri  |-> callbackURL,
            state         |-> ValuesEncode(authzRef, callbackURL)],
   err |-> "nil"]

\* what the token endpoint can answer to the code exchange.  signed tells
\* whether the id_token carries a signature made with Google's keys.
TokenResponses ==
  { [postErr |-> TRUE,  status |-> 0,   bodyJSON |-> FALSE, parts |-> 0,
     b64 |-> FALSE, payloadJSON |-> FALSE, signed |-> FALSE, sub |-> ""],
    [postErr |-> FALSE, status |-> 400, bodyJSON |-> TRUE,  parts |-> 0,
     b64 |-> FALSE, payloadJSON |-> FALSE, signed |-> FALSE, sub |-> ""],
    [postErr |-> FALSE, status |-> 200, bodyJSON |-> FALSE, parts |-> 0,
     b64 |-> FALSE, payloadJSON |-> FALSE, signed |-> FALSE, sub |-> ""],
    [postErr |-> FALSE, status |-> 200, bodyJSON |-> TRUE,  parts |-> 1,
     b64 |-> FALSE, payloadJSON |-> FALSE, signed |-> FALSE, sub |-> ""],
    [postErr |-> FALSE, status |-> 200, bodyJSON |-> TRUE,  parts |-> 3,
     b64 |-> FALSE, payloadJSON |-> FALSE, signed |-> FALSE, sub |-> ""],
    [postErr |-> FALSE, status |-> 200, bodyJSON |-> TRUE,  parts |-> 3,
     b64 |-> TRUE,  payloadJSON |-> FALSE, signed |-> FALSE, sub |-> ""] }
  \cup [postErr : {FALSE}, status : {200}, bodyJSON : {TRUE}, parts : {3},
        b64 : {TRUE}, payloadJSON : {TRUE}, signed : BOOLEAN,
        sub : {"u1", "u2", "u3"}]

\* an AuthnCallback that goes on to the code exchange without looking for
\* the code parameter
GoogleAuthnCallback_NoCodeCheck(q, tr) ==
  IF ~q.hasState \/ ~q.state.wellFormed
  THEN [ref |-> 0, user |-> NoUser, err |-> "nil", posted |-> FALSE]
  ELSE IF tr.postErr
  THEN [ref |-> 0, user |-> NoUser, err |-> "transport", posted |-> TRUE]
  ELSE IF tr.status # 200 \/ ~tr.bodyJSON \/ tr.parts # 3 \/ ~tr.b64
          \/ ~tr.payloadJSON
  THEN [ref |-> ValuesGetRef(q.state), user |-> NoUser, err |-> "nil",
        posted |-> TRUE]
  ELSE [ref |-> ValuesGetRef(q.state),
        user |-> [some |-> TRUE, UID |-> tr.sub, Data |-> <<"CDE_PLUS">>],
        err |-> "nil", posted |-> TRUE]

\* googleIDP.AuthnCallback(r): the reference, the user and the error; posted
\* tells whether the token endpoint was called.  q is the callback's query,
\* tr the token endpoint's answer.
GoogleAuthnCallback(q, tr) ==
  IF ~q.hasState
  THEN [ref |-> 0, user |-> NoUser, err |-> "nil", posted |-> FALSE]
  ELSE IF ~q.state.wellFormed
  THEN [ref |-> 0, user |-> NoUser, err |-> "nil", posted |-> FALSE]
  ELSE IF ~q.hasCode
  THEN [ref |-> ValuesGetRef(q.state), user |-> NoUser, err |-> "nil",
        posted |-> FALSE]
  ELSE IF tr.postErr
  THEN [ref |-> 0, user |-> NoUser, err |-> "transport", posted |-> TRUE]
  ELSE IF tr.status # 200 \/ ~tr.bodyJSON \/ tr.parts # 3 \/ ~tr.b64
          \/ ~tr.payloadJSON
  THEN [ref |-> ValuesGetRef(q.state), user |-> NoUser, err |-> "nil",
        posted |-> TRUE]
  ELSE [ref |-> ValuesGetRef(q.state),
        user |-> [some |-> TRUE, UID |-> tr.sub, Data |-> <<"CDE_PLUS">>],
        err |-> "nil", posted |-> TRUE]

\* the anonymous IdP New() registers when no IdP option is given: it hands
\* back the reference and a fixed user
AnonymousAuthnCallback(q) ==
  IF ~q.hasState \/ ~q.state.wellFormed
  THEN [ref |-> 0, user |-> NoUser, err |-> "nil", posted |-> FALSE]
  ELSE [ref |-> ValuesGetRef(q.state),
        user |-> [some |-> TRUE, UID |-> "anonymous", Data |-> <<>>],
        err |-> "nil", posted |-> FALSE]

\* Authn.AuthnCallback of the IdP registered as authn
AuthnCallback(authn, q, tr) ==
  IF authn = "anonymousIdP" THEN AnonymousAuthnCallback(q)
  ELSE GoogleAuthnCallback(q, tr)

\* the queries a callback request can carry to the handler whose callback
\* URL is cb
CallbackQueries(cb) ==
  [hasState : {FALSE}, state : {MalformedState}, hasCode : BOOLEAN]
  \cup [hasState : {TRUE},
        state : {MalformedState, StateWithoutRef(cb)}
                  \cup {ValuesEncode(ref, cb) : ref \in Refs},
        hasCode : BOOLEAN]

(***************************************************************************)
(* The access-token encoder and the two request handlers.  Their code is   *)
(* not in the files modelled here: they follow the written specification   *)
(* (sections 4.A, 4.F and 4.G).                                            *)
(***************************************************************************)
\* Encode(subject, scopes): the payload of the signed token
Encode(enc, sub, scopes) ==
  [iss |-> IF enc = "random-secret" THEN "goauth2" ELSE "configured",
   sub |-> sub, scopes |-> scopes]

NoToken == [iss |-> "", sub |-> "", scopes |-> <<>>]

NoRequest ==
  [client_id |-> "", redirect_uri |-> "", response_type |-> "",
   scope |-> <<>>, state |-> "", idp_id |-> ""]

\* a response: what was answered (status, the redirect's target and error,
\* whether the parameters travel in the query or the fragment) and what the
\* handler did on the way
NoResp ==
  [kind |-> "none", status |-> 0, error |-> "", location |-> "",
   part |-> "", req |-> NoRequest, ref |-> 0, restoreErr |-> "nil",
   restored |-> ZeroState, user |-> NoUser, token |-> NoToken,
   code |-> FALSE, persisted |-> FALSE, discarded |-> FALSE]

\* the clients behind the ClientMap handed to Clients()
ClientsOf(m) == ClientConfig

\* a filter that lets every requested scope through
FilterScopes_All(scope, allowed) == scope

\* the requested scopes the user's scope set admits, in request order
RECURSIVE FilterScopes(_, _)
FilterScopes(scope, allowed) ==
  IF scope = <<>> THEN <<>>
  ELSE IF Head(scope) \in allowed
       THEN <<Head(scope)>> \o FilterScopes(Tail(scope), allowed)
       ELSE FilterScopes(Tail(scope), allowed)

GrantFor(responseType) ==
  CASE responseType = "token" -> "implicit"
    [] responseType = "code"  -> "authorization_code"
    [] OTHER                  -> "none"

\* GET /authorize (section 4.F).  h is the handler Start built; key the
\* fresh random reference; up whether the engine answers the Persist.
AuthorizeHandler(h, req, key, up, eng) ==
  LET base == [NoResp EXCEPT !.kind = "authorize", !.req = req]
      bad(status) == [resp |-> [base EXCEPT !.status = status], eng |-> eng,
                      state |-> ZeroState]
      redirect(e) == [resp |-> [base EXCEPT !.status = 303,
                                  !.location = req.redirect_uri,
                                  !.part = "query", !.error = e],
                      eng |-> eng, state |-> ZeroState]
  IN IF h.clientMap = "nil"
     THEN [resp |-> [base EXCEPT !.error = "panic"], eng |-> eng,
           state |-> ZeroState]
     ELSE LET c == ClientMapGet(ClientsOf(h.clientMap), req.client_id)
          IN IF c.err # "nil" THEN bad(400)
             ELSE IF req.redirect_uri \notin Range(c.client.Redirects)
             THEN bad(400)
             ELSE IF GrantFor(req.response_type) # c.client.GrantType
             THEN redirect("unsupported_response_type")
             ELSE IF req.scope = <<>> \/ ~ValidScope(h.authz, req.scope)
             THEN redirect("invalid_scope")
             ELSE IF req.idp_id \notin DOMAIN h.idps
             THEN redirect("invalid_request")
             ELSE LET ih == h.idps[req.idp_id]
                      state == [ClientId     |-> req.client_id,
                                RedirectURI  |-> req.redirect_uri,
                                ResponseType |-> req.response_type,
                                Scope        |-> req.scope,
                                State        |-> req.state,
                                IdPState     |-> <<>>]
                      store == newStateStorage(ih.store, StateLifetime)
                      w == persist(store, key, state, eng, up)
                  IN IF w.err # "nil" THEN bad(500)
                     ELSE [resp |-> [base EXCEPT !.status = 303,
                                       !.location = "idp",
                                       !.ref = key, !.persisted = TRUE],
                           eng |-> w.eng, state |-> state]

\* GET /authorize/<id>, the IdP's callback (section 4.G).  ih is the
\* idpHandler; q the query; tr the token endpoint's answer; up whether the
\* engine answers the Restore; discard whether the best-effort delete of the
\* state takes effect.
CallbackHandler(ih, q, tr, up, discard, eng) ==
  LET a == AuthnCallback(ih.authn, q, tr)
      store == newStateStorage(ih.store, StateLifetime)
      r == restore(store, a.ref, ZeroState, eng, up)
      base == [NoResp EXCEPT !.kind = "callback", !.ref = a.ref,
                             !.restoreErr = r.err, !.user = a.user]
      after == IF discard THEN [eng EXCEPT ![a.ref] = NoEntry] ELSE eng
      done(resp) == [resp |-> [resp EXCEPT !.restored = r.e,
                                 !.status = 303,
                                 !.location = r.e.RedirectURI,
                                 !.discarded = discard],
                     eng |-> after]
      failed(e) == done([base EXCEPT !.part = "query", !.error = e])
  IN IF r.err # "nil"
     THEN [resp |-> [base EXCEPT !.status = 400], eng |-> eng]
     ELSE IF a.err # "nil" THEN failed("server_error")
     ELSE IF ~a.user.some THEN failed("access_denied")
     ELSE LET granted == FilterScopes(r.e.Scope,
                                      ScopeSetFor(ih.authz, a.user.UID))
          IN IF granted = <<>> THEN failed("access_denied")
             ELSE IF r.e.ResponseType = "token"
             THEN done([base EXCEPT !.part = "fragment",
                          !.token = Encode(ih.enc, a.user.UID, granted)])
             ELSE done([base EXCEPT !.part = "query", !.code = TRUE])

(***************************************************************************)
(* The state.                                                              *)
(***************************************************************************)
VARIABLES
  options,      \* the option list New() was called with
  server,       \* the Server New() returned
  once,         \* Server.once: [done, locked]
  pc,           \* where each goroutine that calls Start is
  starts,       \* Start calls made so far
  bodyRuns,     \* times the function handed to once.Do has been entered
  listeners,    \* listeners net.Listen has created
  errChan,      \* the errors sent on errChan, in order
  mux,          \* the handler Start serves: NoMux until handler() built it
  ret,          \* what the last call of an option or of Close() returned
  engine,       \* the key/value engine behind the state store
  resp,         \* the last response a request handler gave, in short
  sent,         \* per key: the state last handed to persist, whether the
                \* engine still holds its bytes untouched, and the callbacks
                \* that loaded it
  idp           \* the last call of the Google IdP and what it returned

vars == <<options, server, once, pc, starts, bodyRuns, listeners, errChan,
          mux, ret, engine, resp, sent, idp>>

lifecycle == <<options, server, once, pc, starts, bodyRuns, listeners,
               errChan, mux, ret>>
requests == <<engine, resp, sent>>

NoMux == [built |-> FALSE, idps |-> [x \in {} |-> "nil"],
          clientMap |-> "nil", authz |-> "nil"]

\* handler(): one idpHandler per registered IdP, mounted at /authorize/<id>
\* with the callback URL baseURL.Parse("authorize/<id>"), and the
\* authorizationHandler at /authorize; an error when a reference fails to parse
HandlerOK(s) == \A id \in DOMAIN s.authn : ParseRelOK(id)

handler(s) ==
  [built     |-> TRUE,
   idps      |-> [id \in DOMAIN s.authn |->
                    [authn |-> s.authn[id],
                     store |-> s.store,
                     callback |-> ResolveReference(s.baseURL, id),
                     path |-> AbsPath(id),
                     authz |-> s.authz,
                     enc |-> s.accessTokenEnc]],
   clientMap |-> s.clientMap,
   authz     |-> s.authz]

\* a Start that derives the base URL from the listener whether or not one is
\* set
StartBody_AlwaysDerives(s, lr) ==
  IF lr = "fail"
  THEN [s |-> s, listened |-> FALSE, err |-> "listen", mux |-> NoMux]
  ELSE LET s1 == [s EXCEPT !.listener = "open"]
       IN IF ~ParseAddrOK(lr)
          THEN [s |-> s1, listened |-> TRUE, err |-> "baseurl", mux |-> NoMux]
          ELSE LET s2 == [s1 EXCEPT !.baseURL = AddrURL(lr)]
               IN IF ~HandlerOK(s2)
                  THEN [s |-> s2, listened |-> TRUE, err |-> "handler",
                        mux |-> NoMux]
                  ELSE [s |-> s2, listened |-> TRUE, err |-> "nil",
                        mux |-> handler(s2)]

\* the function Start hands to once.Do, up to http.Serve: the listener, the
\* base URL when none is set, the handler.  lr is what net.Listen does:
\* "fail", or the address of the listener it returns.  err is the error sent
\* on errChan, "nil" when http.Serve is reached.
StartBody(s, lr) ==
  IF lr = "fail"
  THEN [s |-> s, listened |-> FALSE, err |-> "listen", mux |-> NoMux]
  ELSE LET s1 == [s EXCEPT !.listener = "open"]
       IN IF s1.baseURL = ZeroURL /\ ~ParseAddrOK(lr)
          THEN [s |-> s1, listened |-> TRUE, err |-> "baseurl", mux |-> NoMux]
          ELSE LET s2 == IF s1.baseURL = ZeroURL
                         THEN [s1 EXCEPT !.baseURL = AddrURL(lr)] ELSE s1
               IN IF ~HandlerOK(s2)
                  THEN [s |-> s2, listened |-> TRUE, err |-> "handler",
                        mux |-> NoMux]
                  ELSE [s |-> s2, listened |-> TRUE, err |-> "nil",
                        mux |-> handler(s2)]

NoSent == [state |-> ZeroState, intact |-> FALSE, loaded |-> FALSE]

NoIdp ==
  [acted |-> FALSE,
   q     |-> [hasState |-> FALSE, state |-> MalformedState, hasCode |-> FALSE],
   tr    |-> CHOOSE tr \in TokenResponses : tr.postErr,
   out   |-> [ref |-> 0, user |-> NoUser, err |-> "nil", posted |-> FALSE]]

\* what the state keeps of a response: the handler, the status, the error,
\* the reference, what restore returned and the scopes of the token
Summary(r) ==
  [kind |-> r.kind, status |-> r.status, error |-> r.error, ref |-> r.ref,
   restoreErr |-> r.restoreErr, scopes |-> r.token.scopes]

InitRequests ==
  /\ engine = EmptyEngine
  /\ resp = Summary(NoResp)
  /\ sent = [k \in Keys |-> NoSent]

NoCall == [call |-> "none", val |-> "nil"]

\* the state when New(options) has returned the server
Init ==
  /\ options \in OptionLists
  /\ New(options).err = "nil"
  /\ server = New(options).s
  /\ once = [done |-> FALSE, locked |-> FALSE]
  /\ pc = [p \in Starters |-> "idle"]
  /\ starts = 0
  /\ bodyRuns = 0
  /\ listeners = 0
  /\ errChan = <<>>
  /\ mux = NoMux
  /\ ret = NoCall
  /\ InitRequests
  /\ idp = NoIdp

\* a nil dereference in Close() ends the process
Crashed == ret = [call |-> "Close", val |-> "panic"]

\* an option applied to the server New() returned
ApplyOption(o) ==
  /\ ~Crashed
  /\ server' = Option(o, server).s
  /\ ret' = [call |-> "Option", val |-> Option(o, server).err]
  /\ UNCHANGED <<options, once, pc, starts, bodyRuns, listeners, errChan,
                 mux, requests, idp>>

\* a Do that runs f whenever no other call is running it
OnceDo_Rerun(o) == IF o.locked THEN "wait" ELSE "run"

\* once.Do(f): return at once when f is done, wait for the mutex while
\* another call runs f, run f otherwise
OnceDo(o) ==
  IF o.done THEN "return" ELSE IF o.locked THEN "wait" ELSE "run"

\* Start(bindAddr, errChan): the function it hands to once.Do runs up to
\* http.Serve, which ServeEnd ends
Start(p) ==
  /\ ~Crashed
  /\ pc[p] \in {"idle", "returned"}
  /\ starts < MaxStartCalls
  /\ starts' = starts + 1
  /\ UNCHANGED <<options, ret, requests, idp>>
  /\ IF OnceDo(once) = "return"
     THEN /\ pc' = [pc EXCEPT ![p] = "returned"]
          /\ UNCHANGED <<server, once, bodyRuns, listeners, errChan, mux>>
     ELSE IF OnceDo(once) = "wait"
     THEN /\ pc' = [pc EXCEPT ![p] = "blocked"]
          /\ UNCHANGED <<server, once, bodyRuns, listeners, errChan, mux>>
     ELSE \E lr \in {"fail"} \cup ListenAddrs :
            LET b == StartBody(server, lr)
            IN /\ bodyRuns' = bodyRuns + 1
               /\ listeners' = IF b.listened THEN listeners + 1 ELSE listeners
               /\ server' = b.s
               /\ mux' = IF b.err = "nil" THEN b.mux ELSE mux
               /\ errChan' = IF b.err = "nil" THEN errChan
                             ELSE Append(errChan, b.err)
               /\ once' = IF b.err = "nil"
                          THEN [done |-> FALSE, locked |-> TRUE]
                          ELSE [done |-> TRUE, locked |-> FALSE]
               /\ pc' = [pc EXCEPT ![p] = IF b.err = "nil" THEN "serving"
                                          ELSE "returned"]

\* a call waiting in once.Do gets the mutex after the function returned,
\* finds done set and returns
StartUnblock(p) ==
  /\ ~Crashed
  /\ pc[p] = "blocked"
  /\ ~once.locked
  /\ pc' = [pc EXCEPT ![p] = "returned"]
  /\ UNCHANGED <<options, server, once, starts, bodyRuns, listeners, errChan,
                 mux, ret, requests, idp>>

\* a Start that sends every error of http.Serve on errChan
ServeEnd_SendsClosed(p, failed) ==
  /\ ~Crashed
  /\ pc[p] = "serving"
  /\ failed = (server.listener # "closed")
  /\ errChan' = Append(errChan, "serve")
  /\ once' = [done |-> TRUE, locked |-> FALSE]
  /\ pc' = [pc EXCEPT ![p] = "returned"]
  /\ UNCHANGED <<options, server, starts, bodyRuns, listeners, mux, ret,
                 requests, idp>>

\* http.Serve returns: with a "closed" error after Close, which Start keeps
\* to itself, or with another error (failed), which it sends on errChan
ServeEnd(p, failed) ==
  /\ ~Crashed
  /\ pc[p] = "serving"
  /\ failed = (server.listener # "closed")
  /\ errChan' = IF failed THEN Append(errChan, "serve") ELSE errChan
  /\ once' = [done |-> TRUE, locked |-> FALSE]
  /\ pc' = [pc EXCEPT ![p] = "returned"]
  /\ UNCHANGED <<options, server, starts, bodyRuns, listeners, mux, ret,
                 requests, idp>>

\* Close(): s.listener.Close(); a nil listener is a nil dereference
Close ==
  /\ ~Crashed
  /\ ret' = [call |-> "Close",
             val  |-> CASE server.listener = "nil"    -> "panic"
                        [] server.listener = "open"   -> "nil"
                        [] server.listener = "closed" -> "error"]
  /\ server' = IF server.listener = "open"
               THEN [server EXCEPT !.listener = "closed"] ELSE server
  /\ UNCHANGED <<options, once, pc, starts, bodyRuns, listeners, errChan,
                 mux, requests, idp>>

\* http.Serve is accepting requests
Serving ==
  /\ ~Crashed
  /\ mux.built
  /\ server.listener = "open"
  /\ \E p \in Starters : pc[p] = "serving"

\* a reference /authorize can draw: random, so not one the engine holds
Fresh(key) == ~Live(engine, key)

\* GET /authorize
Authorize(req, key, up) ==
  /\ Serving
  /\ Fresh(key)
  /\ \E r \in {AuthorizeHandler(mux, req, key, up, engine)} :
       /\ resp' = Summary(r.resp)
       /\ engine' = r.eng
       /\ sent' = IF r.resp.persisted
                  THEN [sent EXCEPT ![key] = [state |-> r.state,
                                              intact |-> TRUE,
                                              loaded |-> FALSE]]
                  ELSE sent
  /\ UNCHANGED <<lifecycle, idp>>

\* the token endpoint is reached only by a query with a state and a code
ExchangeFor(q, answers) ==
  IF q.hasState /\ q.state.wellFormed /\ q.hasCode THEN answers
  ELSE {NoIdp.tr}

\* GET /authorize/<id>: the callback of the IdP registered as id
Callback(id, q, tr, up, discard) ==
  /\ Serving
  /\ id \in DOMAIN mux.idps
  /\ \E r \in {CallbackHandler(mux.idps[id], q, tr, up, discard, engine)} :
       LET k == r.resp.ref
           loaded == r.resp.restoreErr = "nil"
       IN /\ discard => loaded
          /\ resp' = Summary(r.resp)
          /\ engine' = r.eng
          /\ sent' = IF loaded
                     THEN [sent EXCEPT ![k].loaded = TRUE,
                                       ![k].intact = @ /\ ~discard]
                     ELSE sent
  /\ UNCHANGED <<lifecycle, idp>>

\* time passes
Tick ==
  /\ engine' = Age(engine)
  /\ engine' # engine
  /\ UNCHANGED <<lifecycle, resp, sent, idp>>

\* the bytes the engine holds under a key are damaged
Corrupt(k) ==
  /\ Live(engine, k)
  /\ engine[k].value # Garbage
  /\ engine' = [engine EXCEPT ![k].value = Garbage]
  /\ sent' = [sent EXCEPT ![k].intact = FALSE]
  /\ UNCHANGED <<lifecycle, resp, idp>>

(***************************************************************************)
(* The inputs of the requests.                                             *)
(***************************************************************************)
Good1 ==
  [client_id |-> "app1", redirect_uri |-> "https://app1/cb",
   response_type |-> "token", scope |-> <<"read">>, state |-> "xyz",
   idp_id |-> "google-oic"]

\* the requests /authorize receives
Requests ==
  { Good1,
    [Good1 EXCEPT !.scope = <<"read", "write">>, !.state = ""],
    [Good1 EXCEPT !.client_id = "app2", !.redirect_uri = "https://app2/cb",
                  !.response_type = "code"],
    [Good1 EXCEPT !.idp_id = "anonymous"],
    [Good1 EXCEPT !.client_id = "nobody"],
    [Good1 EXCEPT !.redirect_uri = "https://evil/cb"],
    [Good1 EXCEPT !.redirect_uri = "https://app2/cb"],
    [Good1 EXCEPT !.response_type = "code"],
    [Good1 EXCEPT !.scope = <<"admin">>],
    [Good1 EXCEPT !.scope = <<>>],
    [Good1 EXCEPT !.idp_id = "github"] }

\* the requests of the runs that follow the server's life rather than the flows
FewRequests == {Good1, [Good1 EXCEPT !.idp_id = "anonymous"],
                [Good1 EXCEPT !.client_id = "nobody"]}

\* the token endpoint's answers in the flows: no answer, a refusal, and
\* id_tokens for each user, signed or not
FlowAnswers ==
  {tr \in TokenResponses :
     \/ tr.postErr
     \/ tr.status = 400
     \/ tr.payloadJSON /\ (tr.signed <=> tr.sub = "u1")}

FewAnswers == {tr \in TokenResponses : tr.payloadJSON /\ tr.signed /\ tr.sub = "u1"}

\* the callback queries of the runs that follow the server's life
FewQueries(cb) ==
  {q \in CallbackQueries(cb) :
     q.hasState /\ q.hasCode /\ q.state = ValuesEncode(1, cb)}

Next ==
  \/ \E o \in Options : ApplyOption(o)
  \/ \E p \in Starters : Start(p)
  \/ \E p \in Starters : StartUnblock(p)
  \/ \E p \in Starters, failed \in BOOLEAN : ServeEnd(p, failed)
  \/ Close
  \/ \E req \in FewRequests : Authorize(req, 1, TRUE)
  \/ \E id \in DOMAIN mux.idps :
       \E q \in FewQueries(mux.idps[id].callback), tr \in FewAnswers :
         Callback(id, q, tr, TRUE, FALSE)

Spec == Init /\ [][Next]_vars

(***************************************************************************)
(* The authorization flows on a serving server: every request, the clock   *)
(* and the engine's faults, from the state in which Start has reached      *)
(* http.Serve.                                                             *)
(***************************************************************************)
Opt(op, id, arg) == [op |-> op, id |-> id, arg |-> arg]

\* the deployments the flows run on: every collaborator configured, as main
\* does, and the client map and the provider alone
FlowOptionLists ==
  { << Opt("BaseURL", "", [host |-> "auth.example", segs |-> <<"oauth">>,
                           dir |-> TRUE]),
       Opt("Storage", "", "redis"),
       Opt("IdP", "google-oic", "googleA"),
       Opt("AuthzProvider", "", "roles"),
       Opt("AccessTokenConfig", "", "configured"),
       Opt("Clients", "", "clients") >>,
    << Opt("Clients", "", "clients"), Opt("AuthzProvider", "", "roles") >> }

InitFlow ==
  /\ options \in FlowOptionLists
  /\ LET b == StartBody(New(options).s, "127.0.0.1:8080")
     IN /\ server = b.s
        /\ mux = b.mux
  /\ once = [done |-> FALSE, locked |-> TRUE]
  /\ pc = [p \in Starters |-> IF p = 1 THEN "serving" ELSE "idle"]
  /\ starts = 1
  /\ bodyRuns = 1
  /\ listeners = 1
  /\ errChan = <<>>
  /\ ret = NoCall
  /\ InitRequests
  /\ idp = NoIdp

NextFlow ==
  \/ \E req \in Requests, key \in Keys, up \in BOOLEAN : Authorize(req, key, up)
  \/ \E id \in DOMAIN mux.idps :
       \E q \in CallbackQueries(mux.idps[id].callback) :
         \E tr \in ExchangeFor(q, FlowAnswers), up \in BOOLEAN :
           \E discard \in IF up THEN BOOLEAN ELSE {FALSE} :
             Callback(id, q, tr, up, discard)
  \/ Tick
  \/ \E k \in Keys : Corrupt(k)

SpecFlow == InitFlow /\ [][NextFlow]_vars

(***************************************************************************)
(* The Google IdP on its own: every callback query against every answer of *)
(* the token endpoint.                                                     *)
(***************************************************************************)
\* the callback URLs the IdP can be given
CallbackURLs == {ResolveReference(b, "google-oic") : b \in BaseURLs}

GoogleCallback(q, tr) ==
  /\ idp' = [acted |-> TRUE, q |-> q, tr |-> tr,
             out |-> GoogleAuthnCallback(q, tr)]
  /\ UNCHANGED <<lifecycle, requests>>

InitIdP ==
  /\ options = <<>>
  /\ server = New(options).s
  /\ once = [done |-> FALSE, locked |-> FALSE]
  /\ pc = [p \in Starters |-> "idle"]
  /\ starts = 0
  /\ bodyRuns = 0
  /\ listeners = 0
  /\ errChan = <<>>
  /\ mux = NoMux
  /\ ret = NoCall
  /\ InitRequests
  /\ idp = NoIdp

NextIdP ==
  \E cb \in CallbackURLs :
    \E q \in CallbackQueries(cb), tr \in TokenResponses : GoogleCallback(q, tr)

SpecIdP == InitIdP /\ [][NextIdP]_vars

(***************************************************************************)
(* The claims about the server's life, checked under Spec.                 *)
(***************************************************************************)
\* C1: once New() has returned the server, applying any option returns an
\* error and leaves baseURL, store, clientMap, authz, accessTokenEnc and the
\* IdP map as they were.
C1_OptionAfterNewFails ==
  [][\A o \in Options :
       (server.initialized /\ ApplyOption(o)) =>
         /\ ret'.call = "Option"
         /\ ret'.val # "nil"
         /\ server'.baseURL = server.baseURL
         /\ server'.store = server.store
         /\ server'.clientMap = server.clientMap
         /\ server'.authz = server.authz
         /\ server'.accessTokenEnc = server.accessTokenEnc
         /\ server'.authn = server.authn]_vars

\* an option was applied to a started server and answered with its error
C1_Witness ==
  /\ server.initialized
  /\ server.listener = "open"
  /\ ret = [call |-> "Option", val |-> ErrInitialized]

\* C2: in every state after New() returned, whatever Start, Close, options
\* and requests have done, the client registry, the IdP registry, the
\* authorization provider, the store handle and the access-token encoder are
\* the ones New() returned.
C2_RegistriesFrozen ==
  LET s0 == New(options).s
  IN /\ server.clientMap = s0.clientMap
     /\ server.authn = s0.authn
     /\ server.authz = s0.authz
     /\ server.store = s0.store
     /\ server.accessTokenEnc = s0.accessTokenEnc

\* a state persisted by /authorize, a callback answered, the listener closed
\* and an option applied since
C2_Witness ==
  /\ \E k \in Keys : sent[k].intact
  /\ resp.kind = "callback"
  /\ server.listener = "closed"
  /\ ret.call = "Option"
  /\ starts >= 2

\* C3: however often Start is called, the function it hands to once.Do runs
\* at most once: at most one listener is created, and a call after the first
\* creates no listener, serves nothing and sends nothing on errChan.
C3_StartOnce ==
  /\ [](bodyRuns <= 1 /\ listeners <= 1)
  /\ [][\A p \in Starters :
          (bodyRuns >= 1 /\ Start(p)) =>
            /\ UNCHANGED <<bodyRuns, listeners, errChan, mux, server>>
            /\ pc'[p] \in {"blocked", "returned"}]_vars

\* a second call waited for the first to finish serving and then returned
C3_Witness ==
  /\ starts >= 2
  /\ bodyRuns = 1
  /\ listeners = 1
  /\ \A p \in Starters : pc[p] = "returned"

(***************************************************************************)
(* The claims about the authorization flows, checked under SpecFlow.  They *)
(* are stated of every request the serving server can receive in a         *)
(* reachable state: the response is what the handler returns for it.       *)
(***************************************************************************)
\* the callbacks the server can receive, as <<id, q, tr, up, discard>>
CallbackInputs ==
  {<<id, q, tr, up, discard>> :
     id \in DOMAIN mux.idps,
     q \in UNION {CallbackQueries(mux.idps[i].callback) : i \in DOMAIN mux.idps},
     tr \in FlowAnswers, up \in BOOLEAN, discard \in BOOLEAN}

\* what the callback handler answers to one of them
CallbackResult(c) ==
  CallbackHandler(mux.idps[c[1]], c[2], c[3], c[4], c[5], engine)

\* C4: a callback that issues an access token gives it only scopes that are
\* both in the scope list of the flow's AuthorizationState (the requested
\* scopes) and in ScopeSetFor(user) of the authenticated user.
C4_TokenScopesWithinBoth ==
  Serving =>
    \A c \in CallbackInputs :
      LET r == CallbackResult(c).resp
      IN r.token # NoToken =>
           /\ r.user.some
           /\ r.token.sub = r.user.UID
           /\ r.restored = sent[r.ref].state
           /\ Range(r.token.scopes) \subseteq Range(sent[r.ref].state.Scope)
           /\ Range(r.token.scopes)
                \subseteq ScopeSetFor(mux.idps[c[1]].authz, r.user.UID)

\* scope narrowing: read and write were requested, the token carries read
C4_Witness ==
  /\ resp.kind = "callback"
  /\ resp.status = 303
  /\ resp.scopes = <<"read">>
  /\ sent[resp.ref].state.Scope = <<"read", "write">>

\* the registered redirects of a client identifier, none when it is unknown
Registered(id) ==
  IF id \in DOMAIN ClientConfig THEN Range(ClientConfig[id].Redirects) ELSE {}

\* C5: every AuthorizationState /authorize persists has the request's
\* redirect_uri, which is one of the registered redirects of the client
\* named by client_id; a request with an unknown client_id or an
\* unregistered redirect_uri is answered 400 with no redirect and persists
\* nothing.
C5_RedirectRegistered ==
  /\ \A k \in Keys :
       sent[k].intact =>
         sent[k].state.RedirectURI \in Registered(sent[k].state.ClientId)
  /\ Serving =>
       \A req \in Requests, key \in Keys, up \in BOOLEAN :
         LET r == AuthorizeHandler(mux, req, key, up, engine)
         IN /\ r.resp.persisted =>
                 /\ r.state.RedirectURI = req.redirect_uri
                 /\ r.state.ClientId = req.client_id
                 /\ req.redirect_uri \in Registered(req.client_id)
                 /\ r.eng[key].value = gobEncode(r.state)
            /\ req.redirect_uri \notin Registered(req.client_id) =>
                 /\ r.resp.status = 400
                 /\ r.resp.location = ""
                 /\ ~r.resp.persisted
                 /\ r.eng = engine

\* a state was persisted, and a later request with a bad client or redirect
\* was answered 400
C5_Witness ==
  /\ resp.kind = "authorize"
  /\ resp.status = 400
  /\ \E k \in Keys : sent[k].intact /\ Live(engine, k)

\* C6 as claimed: once a callback has loaded the state under an authz_ref,
\* a later callback carrying the same authz_ref finds no state and is
\* answered 400.
C6_SingleUse ==
  Serving =>
    \A c \in CallbackInputs :
      LET r == CallbackResult(c).resp
      IN (r.ref \in Keys /\ sent[r.ref].loaded) =>
           (r.restoreErr # "nil" /\ r.status = 400)

\* C7: every state is persisted with the lifetime the store was built with,
\* and a key persisted at least that long ago is never restored: restore
\* reports it missing and the callback carrying it is answered 400.
C7_LifetimeEnforced ==
  /\ \A k \in Keys : engine[k].present => engine[k].ttl = StateLifetime
  /\ \A k \in Keys :
       (engine[k].present /\ engine[k].age >= StateLifetime) =>
         LET r == restore(newStateStorage("engine", StateLifetime), k,
                          ZeroState, engine, TRUE)
         IN r.err = "missing" /\ r.e = ZeroState
  /\ Serving =>
       \A c \in CallbackInputs :
         LET r == CallbackResult(c).resp
         IN (r.ref \in Keys /\ engine[r.ref].present
               /\ engine[r.ref].age >= StateLifetime) =>
              /\ r.status = 400
              /\ r.restoreErr # "nil"
              /\ c[4] => r.restoreErr = "missing"

\* a callback carried a reference whose state had outlived its lifetime and
\* was answered 400
C7_Witness ==
  /\ resp.kind = "callback"
  /\ resp.status = 400
  /\ resp.restoreErr = "missing"
  /\ resp.ref \in Keys
  /\ engine[resp.ref].present
  /\ engine[resp.ref].age >= StateLifetime
  /\ sent[resp.ref].intact

MissingKeys == {k \in Keys : ~Live(engine, k)}
UndecodableKeys == {k \in Keys : Live(engine, k) /\ engine[k].value.kind # "gob"}

RestoreErr(k) ==
  restore(newStateStorage("engine", StateLifetime), k, ZeroState, engine,
          TRUE).err

\* C9: restore returns an error when the engine has no value under the key
\* and when the stored bytes do not decode, and the two errors differ.
C9_RestoreErrors ==
  /\ \A k \in MissingKeys : RestoreErr(k) # "nil"
  /\ \A k \in UndecodableKeys : RestoreErr(k) # "nil"
  /\ \A k1 \in MissingKeys, k2 \in UndecodableKeys :
       RestoreErr(k1) # RestoreErr(k2)

\* a callback met bytes that do not decode while another key is missing
C9_Witness ==
  /\ resp.kind = "callback"
  /\ resp.restoreErr = "gob: decode"
  /\ resp.status = 400
  /\ MissingKeys # {}
  /\ UndecodableKeys # {}

(***************************************************************************)
(* The claims about the Google IdP, checked under SpecIdP.                 *)
(***************************************************************************)
\* C10 as claimed: AuthnCallback returns a User only for an id_token whose
\* signature was verified against the IdP's keys.
C10_UserOnlyFromVerifiedToken ==
  (idp.acted /\ idp.out.user.some) => idp.tr.signed

\* the state parameter AuthnRedirect puts in the authentication URL
RedirectState(cb, ref) == GoogleAuthnRedirect("client-id", cb, ref).url.state

\* C11 as claimed: a callback that brings back the state parameter
\* AuthnRedirect built for an authz_ref gets exactly that authz_ref from
\* AuthnCallback in every outcome: user returned, user denial, and fault at
\* the token endpoint.
C11_RefRoundTrip ==
  \A cb \in CallbackURLs, ref \in Refs :
    (idp.acted /\ idp.q.hasState /\ idp.q.state = RedirectState(cb, ref)) =>
      idp.out.ref = ref

\* C12: a callback whose state parameter parses and that has no code
\* parameter gets (the ref carried in the state, no user, nil error), and
\* the token endpoint is not called.
C12_DenialWithoutCode ==
  (idp.acted /\ idp.q.hasState /\ idp.q.state.wellFormed /\ ~idp.q.hasCode) =>
    /\ idp.out.user = NoUser
    /\ idp.out.err = "nil"
    /\ ~idp.out.posted
    /\ \A cb \in CallbackURLs :
         /\ \A ref \in Refs :
              idp.q.state = RedirectState(cb, ref) => idp.out.ref = ref
         /\ idp.q.state = StateWithoutRef(cb) => idp.out.ref = 0

\* a denial reached AuthnCallback while the token endpoint was ready to
\* answer with a good id_token: the reference came back, no user did
C12_Witness ==
  /\ idp.acted
  /\ idp.q.hasState
  /\ ~idp.q.hasCode
  /\ idp.q.state \in {RedirectState(cb, 2) : cb \in CallbackURLs}
  /\ idp.tr.payloadJSON
  /\ idp.out = [ref |-> 2, user |-> NoUser, err |-> "nil", posted |-> FALSE]

\* the token endpoint's answer is a transport or protocol fault
Fault(tr) ==
  \/ tr.postErr
  \/ tr.status # 200
  \/ ~tr.bodyJSON
  \/ tr.parts # 3
  \/ ~tr.b64
  \/ ~tr.payloadJSON

\* C13 as claimed: AuthnCallback returns a non-nil error for every fault of
\* the code exchange (failed POST, non-200 answer, undecodable body,
\* malformed id_token), and (no user, nil error) only for a user denial.
C13_FaultsAreErrors ==
  idp.acted =>
    /\ (idp.out.posted /\ Fault(idp.tr)) => idp.out.err # "nil"
    /\ (~idp.out.user.some /\ idp.out.err = "nil") => ~idp.out.posted

\* C14 as claimed: AuthnCallback returns a User, and calls the token
\* endpoint, only for a callback whose state parameter parses and holds a
\* non-empty authz_ref.
C14_UserNeedsRef ==
  (idp.acted /\ (idp.out.user.some \/ idp.out.posted)) =>
    /\ idp.q.hasState
    /\ idp.q.state.wellFormed
    /\ \E i \in 1..Len(idp.q.state.pairs) :
         idp.q.state.pairs[i].k = "ref" /\ idp.q.state.pairs[i].ref # 0

(***************************************************************************)
(* More claims about the server's life, checked under Spec.                *)
(***************************************************************************)
\* the positions of the IdP options in the list New() was given
IdPOptionsGiven == {i \in 1..Len(options) : options[i].op = "IdP"}

\* the last IdP option given with the identifier id
LastIdPOption(id) ==
  CHOOSE i \in IdPOptionsGiven :
    /\ options[i].id = id
    /\ \A j \in IdPOptionsGiven : options[j].id = id => j <= i

\* C15: after New(options) the IdP registry holds, for each identifier an
\* IdP option was given with, the Authn of the last such option: an earlier
\* registration under the identifier is overwritten without error, and the
\* registrations under other identifiers are unaffected.
C15_LastIdPOptionWins ==
  IdPOptionsGiven # {} =>
    /\ DOMAIN server.authn = {options[i].id : i \in IdPOptionsGiven}
    /\ \A id \in DOMAIN server.authn :
         server.authn[id] = options[LastIdPOption(id)].arg

\* google-oic was registered twice; the server New() returned holds the
\* second Authn, and serves with it
C15_Witness ==
  /\ Len(options) = 2
  /\ options[1] = [op |-> "IdP", id |-> "google-oic", arg |-> "googleA"]
  /\ options[2] = [op |-> "IdP", id |-> "google-oic", arg |-> "googleB"]
  /\ server.authn["google-oic"] = "googleB"
  /\ mux.built
  /\ mux.idps["google-oic"].authn = "googleB"

\* distinct identifiers have distinct handlers, mount paths and callback URLs
DistinctHandlers ==
  \A id1, id2 \in DOMAIN mux.idps :
    id1 # id2 =>
      /\ mux.idps[id1].path # mux.idps[id2].path
      /\ mux.idps[id1].callback # mux.idps[id2].callback

\* C16 as claimed: the callback URL given to the handler of each registered
\* IdP has the path the handler is mounted at, /authorize/<id>, whatever the
\* configured base URL, and distinct identifiers get distinct handlers and
\* callback URLs.
C16_CallbackPathIsMountPath ==
  mux.built =>
    /\ \A id \in DOMAIN mux.idps :
         mux.idps[id].callback.segs = mux.idps[id].path
    /\ DistinctHandlers

\* the path of a URL up to its last "/"
DirSegs(u) == IF u.dir THEN u.segs ELSE Front(u.segs)

\* C16 as amended: the callback URL has the base URL's host and, as path,
\* the base URL's path up to its last "/" followed by the mount path
\* authorize/<id>; the two paths are equal when that part of the base URL's
\* path is "/", as it is for the base URL Start derives from the listener;
\* distinct identifiers get distinct handlers and callback URLs.
C16_CallbackUnderBaseURL ==
  mux.built =>
    /\ \A id \in DOMAIN mux.idps :
         /\ mux.idps[id].path = <<"authorize", id>>
         /\ mux.idps[id].callback.host = server.baseURL.host
         /\ mux.idps[id].callback.segs
              = DirSegs(server.baseURL) \o mux.idps[id].path
         /\ DirSegs(server.baseURL) = <<>> =>
              mux.idps[id].callback.segs = mux.idps[id].path
    /\ DOMAIN mux.idps = DOMAIN server.authn
    /\ DistinctHandlers

\* the server serves behind the base URL http://auth.example/oauth/: the
\* callback URL of google-oic is /oauth/authorize/google-oic
C16_Witness ==
  /\ mux.built
  /\ server.baseURL = [host |-> "auth.example", segs |-> <<"oauth">>,
                       dir |-> TRUE]
  /\ "google-oic" \in DOMAIN mux.idps
  /\ mux.idps["google-oic"].callback.segs
       = <<"oauth", "authorize", "google-oic">>
  /\ mux.idps["google-oic"].path = <<"authorize", "google-oic">>

\* C17 as claimed: after New() has returned the server, the access-token
\* encoder, the store, the authorization provider and the client registry
\* are set and the IdP registry is not empty.
C17_CollaboratorsSet ==
  server.initialized =>
    /\ server.accessTokenEnc # "nil"
    /\ server.store # "nil"
    /\ server.authz # "nil"
    /\ server.clientMap # "nil"
    /\ DOMAIN server.authn # {}

\* C18 as claimed: Close() returns nil or an error in every state reachable
\* after New(): before any Start, after a failed listen, while a Start is
\* serving, and when called again.
C18_CloseNeverFaults ==
  ret.call = "Close" => ret.val \in {"nil", "error"}

\* C19: each run of Start's body that fails (listen, base URL, handler,
\* serve) sends exactly one error on errChan and Start returns; a serve loop
\* ended by Close sends none and Start returns; a Start that does not run
\* the body sends nothing.
C19_OneErrorPerFailedStart ==
  /\ [](Len(errChan) <= 1 /\ Len(errChan) <= bodyRuns)
  /\ [][\A p \in Starters :
          /\ (Start(p) /\ bodyRuns' = bodyRuns) => errChan' = errChan
          /\ (Start(p) /\ bodyRuns' = bodyRuns + 1) =>
               IF pc'[p] = "serving"
               THEN /\ errChan' = errChan
                    /\ mux'.built
                    /\ server'.listener = "open"
               ELSE /\ pc'[p] = "returned"
                    /\ once'.done
                    /\ ~mux'.built
                    /\ Len(errChan') = Len(errChan) + 1
                    /\ errChan'[Len(errChan')] =
                         IF listeners' = listeners THEN "listen"
                         ELSE IF server'.baseURL = ZeroURL THEN "baseurl"
                         ELSE "handler"
          /\ ServeEnd(p, TRUE) =>
               /\ server.listener # "closed"
               /\ errChan' = Append(errChan, "serve")
               /\ pc'[p] = "returned"
          /\ ServeEnd(p, FALSE) =>
               /\ server.listener = "closed"
               /\ errChan' = errChan
               /\ pc'[p] = "returned"]_vars

\* Close ended the serve loop of the one Start that ran the body: every
\* Start has returned and errChan is empty
C19_Witness ==
  /\ bodyRuns = 1
  /\ mux.built
  /\ server.listener = "closed"
  /\ ret = [call |-> "Close", val |-> "nil"]
  /\ \A p \in Starters : pc[p] = "returned"
  /\ errChan = <<>>

\* the positions of the BaseURL options in the list New() was given
BaseURLOptionsGiven == {i \in 1..Len(options) : options[i].op = "BaseURL"}

\* the base URL configured through the options, the zero URL when none was
ConfiguredBaseURL ==
  IF BaseURLOptionsGiven = {} THEN ZeroURL
  ELSE options[CHOOSE i \in BaseURLOptionsGiven :
                 \A j \in BaseURLOptionsGiven : j <= i].arg

\* C20: a base URL set through the BaseURL option is never changed by
\* Start, Close or a request; when none was configured, the base URL
\* changes once, in the Start that opens the listener, to
\* http://<listener address>/.
C20_BaseURLDerivedOnlyWhenUnset ==
  /\ [](ConfiguredBaseURL # ZeroURL => server.baseURL = ConfiguredBaseURL)
  /\ [](ConfiguredBaseURL = ZeroURL =>
          \/ server.baseURL = ZeroURL /\ ~mux.built
          \/ /\ listeners = 1
             /\ \E a \in ListenAddrs : server.baseURL = AddrURL(a))
  /\ [][server'.baseURL # server.baseURL =>
          /\ server.baseURL = ZeroURL
          /\ bodyRuns' = bodyRuns + 1
          /\ listeners' = listeners + 1
          /\ \E a \in ListenAddrs : server'.baseURL = AddrURL(a)]_vars

\* the server was given a base URL, has served requests under it and was
\* closed: the base URL is the configured one
C20_Witness ==
  /\ ConfiguredBaseURL = [host |-> "auth.example", segs |-> <<"oauth">>,
                          dir |-> TRUE]
  /\ server.baseURL = ConfiguredBaseURL
  /\ listeners = 1
  /\ resp.kind = "callback"
  /\ server.listener = "closed"

=============================================================================
